---- MODULE Spec2Model ----
(***************************************************************************)
(* Model of eosws-js (src/index.ts): the request encoder (get_actions,     *)
(* get_transaction, get_table_rows, unlisten, generateReqId) and the       *)
(* response decoder (parse_actions, parse_table_rows, parse_ping,          *)
(* parse_message), together with the JavaScript built-ins they rest on     *)
(* (JSON.stringify, JSON.parse, toString of the four WebSocketData shapes, *)
(* Math.round, Math.random, truthiness, property access, ===).             *)
(*                                                                         *)
(* A JavaScript string is a sequence of UTF-16 code units (naturals), a    *)
(* Buffer a sequence of bytes.  A JavaScript value is a tagged record.     *)
(***************************************************************************)
EXTENDS Integers, Sequences, FiniteSets, TLC

VARIABLES call, ret

vars == <<call, ret>>

(***************************************************************************)
(* Characters and strings                                                  *)
(***************************************************************************)

\* The printable ASCII characters, code 32 to 126, in code order.
Ascii ==
  << " ", "!", "\"", "#", "$", "%", "&", "'", "(", ")", "*", "+", ",", "-", ".", "/",
     "0", "1", "2", "3", "4", "5", "6", "7", "8", "9", ":", ";", "<", "=", ">", "?",
     "@", "A", "B", "C", "D", "E", "F", "G", "H", "I", "J", "K", "L", "M", "N", "O",
     "P", "Q", "R", "S", "T", "U", "V", "W", "X", "Y", "Z", "[", "\\", "]", "^", "_",
     "<backtick>", "a", "b", "c", "d", "e", "f", "g", "h", "i", "j", "k", "l", "m", "n", "o",
     "p", "q", "r", "s", "t", "u", "v", "w", "x", "y", "z", "{", "|", "}", "~" >>

\* The code unit of a printable ASCII character.
Code(c) == (CHOOSE i \in DOMAIN Ascii : Ascii[i] = c) + 31

\* A string literal, written as the sequence of its characters.
Str(cs) == [i \in DOMAIN cs |-> Code(cs[i])]

Quote == Code("\"")
Backslash == Code("\\")
Comma == Code(",")
Colon == Code(":")
LBrace == Code("{")
RBrace == Code("}")
LBracket == Code("[")
RBracket == Code("]")
Minus == Code("-")
Zero == Code("0")

\* The replacement character U+FFFD a UTF-8 decoder emits for an invalid byte.
ReplacementChar == 65533

IsDigit(c) == c >= Code("0") /\ c <= Code("9")

HexDigits == Str(<<"0","1","2","3","4","5","6","7","8","9","a","b","c","d","e","f">>)

\* Number.prototype.toString of a non-negative integer.
RECURSIVE DigitsOf(_)
DigitsOf(n) ==
  IF n < 10 THEN <<Zero + n>> ELSE Append(DigitsOf(n \div 10), Zero + (n % 10))

\* ToString of an integral Number (the "req" + number concatenation, and
\* the number case of JSON.stringify).
NumberToString(n) == IF n < 0 THEN <<Minus>> \o DigitsOf(0 - n) ELSE DigitsOf(n)

(***************************************************************************)
(* JavaScript values                                                       *)
(***************************************************************************)

Undefined == [t |-> "undefined"]
Null == [t |-> "null"]
JSString(s) == [t |-> "string", s |-> s]
JSNumber(n) == [t |-> "number", n |-> n]
JSBoolean(b) == [t |-> "boolean", b |-> b]
\* An object is the sequence of its own properties, in insertion order.
JSObject(props) == [t |-> "object", props |-> props]
JSArray(items) == [t |-> "array", items |-> items]
Prop(key, val) == [key |-> key, val |-> val]

\* The outcome of a call: a returned value or a thrown error.
Return(v) == [k |-> "return", v |-> v]
Throw(name) == [k |-> "throw", error |-> name]
Pending == [k |-> "pending"]

\* ToBoolean, on the values an argument or a property can hold here.
ToBoolean(v) ==
  CASE v.t = "undefined" -> FALSE
    [] v.t = "null" -> FALSE
    [] v.t = "string" -> Len(v.s) > 0
    [] v.t = "number" -> v.n # 0
    [] v.t = "boolean" -> v.b
    [] OTHER -> TRUE

\* a === b where one side is a primitive: objects are equal only to themselves.
StrictEquals(a, b) ==
  /\ a.t = b.t
  /\ a.t \notin {"object", "array"}
  /\ a = b

HasProp(props, key) == \E i \in DOMAIN props : props[i].key = key

PropIndex(props, key) == CHOOSE i \in DOMAIN props : props[i].key = key

\* CreateDataProperty: a new key is appended, an existing key keeps its place.
SetProp(props, key, val) ==
  IF HasProp(props, key)
    THEN [props EXCEPT ![PropIndex(props, key)] = Prop(key, val)]
    ELSE Append(props, Prop(key, val))

\* v.key: a TypeError on null and undefined, undefined where v has no such
\* property (a primitive, an array, an object without the key).
GetProp(v, key) ==
  IF v.t \in {"null", "undefined"} THEN Throw("TypeError")
  ELSE IF v.t = "object" /\ HasProp(v.props, key)
    THEN Return(v.props[PropIndex(v.props, key)].val)
  ELSE Return(Undefined)

(***************************************************************************)
(* JSON.stringify                                                          *)
(***************************************************************************)

\* The \u00xx escape of a control character.
UnicodeEscape(c) ==
  <<Backslash, Code("u"), Zero, Zero, HexDigits[(c \div 16) + 1], HexDigits[(c % 16) + 1]>>

\* Mutant of EscapeChar: nothing is escaped.
EscapeChar_Raw(c) == <<c>>

\* QuoteJSONString's escape of one code unit.  (Lone surrogates are not in
\* the alphabet of the model.)
EscapeChar(c) ==
  CASE c = 8 -> <<Backslash, Code("b")>>
    [] c = 9 -> <<Backslash, Code("t")>>
    [] c = 10 -> <<Backslash, Code("n")>>
    [] c = 12 -> <<Backslash, Code("f")>>
    [] c = 13 -> <<Backslash, Code("r")>>
    [] c = Quote -> <<Backslash, Quote>>
    [] c = Backslash -> <<Backslash, Backslash>>
    [] OTHER -> IF c < 32 THEN UnicodeEscape(c) ELSE <<c>>

RECURSIVE EscapeFrom(_, _)
EscapeFrom(s, i) ==
  IF i > Len(s) THEN <<>> ELSE EscapeChar(s[i]) \o EscapeFrom(s, i + 1)

QuoteJSONString(s) == <<Quote>> \o EscapeFrom(s, 1) \o <<Quote>>

\* SerializeJSONProperty / SerializeJSONObject / SerializeJSONArray: a
\* property whose value is undefined is left out of an object, and written
\* as null in an array.
RECURSIVE JSON_stringify(_), SerializeMembers(_, _, _), SerializeElements(_, _)
JSON_stringify(v) ==
  CASE v.t = "string" -> QuoteJSONString(v.s)
    [] v.t = "number" -> NumberToString(v.n)
    [] v.t = "boolean" -> IF v.b THEN Str(<<"t","r","u","e">>) ELSE Str(<<"f","a","l","s","e">>)
    [] v.t = "null" -> Str(<<"n","u","l","l">>)
    [] v.t = "object" -> <<LBrace>> \o SerializeMembers(v.props, 1, TRUE) \o <<RBrace>>
    [] v.t = "array" -> <<LBracket>> \o SerializeElements(v.items, 1) \o <<RBracket>>

SerializeMembers(props, i, first) ==
  IF i > Len(props) THEN <<>>
  ELSE IF props[i].val.t = "undefined" THEN SerializeMembers(props, i + 1, first)
  ELSE (IF first THEN <<>> ELSE <<Comma>>)
         \o QuoteJSONString(props[i].key) \o <<Colon>> \o JSON_stringify(props[i].val)
         \o SerializeMembers(props, i + 1, FALSE)

SerializeElements(items, i) ==
  IF i > Len(items) THEN <<>>
  ELSE (IF i = 1 THEN <<>> ELSE <<Comma>>)
         \o (IF items[i].t = "undefined" THEN Str(<<"n","u","l","l">>) ELSE JSON_stringify(items[i]))
         \o SerializeElements(items, i + 1)

(***************************************************************************)
(* JSON.parse                                                              *)
(***************************************************************************)

\* A parse step: ok, the value read, and the index of the next character.
Parsed(v, i) == [ok |-> TRUE, v |-> v, i |-> i]
Failed == [ok |-> FALSE, v |-> Undefined, i |-> 0]

\* JSON whitespace: space, tab, line feed, carriage return.
IsWs(c) == c \in {32, 9, 10, 13}

RECURSIVE SkipWs(_, _)
SkipWs(t, i) == IF i <= Len(t) /\ IsWs(t[i]) THEN SkipWs(t, i + 1) ELSE i

At(t, i, c) == i <= Len(t) /\ t[i] = c

IsHex(c) == IsDigit(c) \/ (c >= Code("a") /\ c <= Code("f")) \/ (c >= Code("A") /\ c <= Code("F"))

HexValue(c) ==
  IF IsDigit(c) THEN c - Zero
  ELSE IF c >= Code("a") THEN c - Code("a") + 10
  ELSE c - Code("A") + 10

\* The character a two-character escape stands for; 0 for none.
SimpleEscape(e) ==
  CASE e = Quote -> Quote
    [] e = Backslash -> Backslash
    [] e = Code("/") -> Code("/")
    [] e = Code("b") -> 8
    [] e = Code("f") -> 12
    [] e = Code("n") -> 10
    [] e = Code("r") -> 13
    [] e = Code("t") -> 9
    [] OTHER -> 0

\* The characters of a JSON string whose opening quote is before index j.
RECURSIVE ParseChars(_, _, _)
ParseChars(t, j, acc) ==
  IF j > Len(t) THEN Failed
  ELSE IF t[j] = Quote THEN Parsed(acc, j + 1)
  ELSE IF t[j] < 32 THEN Failed
  ELSE IF t[j] = Backslash THEN
    IF j + 1 > Len(t) THEN Failed
    ELSE IF SimpleEscape(t[j + 1]) # 0
      THEN ParseChars(t, j + 2, Append(acc, SimpleEscape(t[j + 1])))
    ELSE IF t[j + 1] = Code("u") /\ j + 5 <= Len(t)
            /\ \A d \in 2..5 : IsHex(t[j + d])
      THEN ParseChars(t, j + 6,
             Append(acc, HexValue(t[j + 2]) * 4096 + HexValue(t[j + 3]) * 256
                         + HexValue(t[j + 4]) * 16 + HexValue(t[j + 5])))
    ELSE Failed
  ELSE ParseChars(t, j + 1, Append(acc, t[j]))

ParseString(t, i) ==
  LET r == ParseChars(t, i + 1, <<>>)
  IN IF r.ok THEN Parsed(JSString(r.v), r.i) ELSE Failed

RECURSIVE ParseDigits(_, _, _)
ParseDigits(t, j, n) ==
  IF j <= Len(t) /\ IsDigit(t[j]) THEN ParseDigits(t, j + 1, n * 10 + (t[j] - Zero))
  ELSE Parsed(n, j)

\* A JSON number without fraction or exponent (neither is in the alphabet
\* of the payloads of the model): -? ( 0 | [1-9][0-9]* ).
ParseNumber(t, i) ==
  LET neg == At(t, i, Minus)
      j == IF neg THEN i + 1 ELSE i
  IN IF j > Len(t) \/ ~IsDigit(t[j]) THEN Failed
     ELSE LET r == IF t[j] = Zero THEN Parsed(0, j + 1) ELSE ParseDigits(t, j, 0)
          IN Parsed(JSNumber(IF neg THEN 0 - r.v ELSE r.v), r.i)

StartsWith(t, i, w) == i + Len(w) - 1 <= Len(t) /\ SubSeq(t, i, i + Len(w) - 1) = w

RECURSIVE ParseValue(_, _), ParseMembers(_, _, _), ParseElements(_, _, _)
RECURSIVE AfterKey(_, _, _), AfterColon(_, _, _, _), AfterMember(_, _, _, _)
RECURSIVE MembersEnd(_, _, _), AfterElement(_, _, _), ElementsEnd(_, _, _)
\* An object or an array from index j on, after the opening bracket and
\* whitespace.
ObjectFrom(t, j) ==
  IF At(t, j, RBrace) THEN Parsed(JSObject(<<>>), j + 1) ELSE ParseMembers(t, j, <<>>)

ArrayFrom(t, j) ==
  IF At(t, j, RBracket) THEN Parsed(JSArray(<<>>), j + 1) ELSE ParseElements(t, j, <<>>)

\* The JSON value that starts at index i (whitespace already skipped).
ParseValue(t, i) ==
  IF i > Len(t) THEN Failed
  ELSE IF t[i] = LBrace THEN ObjectFrom(t, SkipWs(t, i + 1))
  ELSE IF t[i] = LBracket THEN ArrayFrom(t, SkipWs(t, i + 1))
  ELSE IF t[i] = Quote THEN ParseString(t, i)
  ELSE IF t[i] = Minus \/ IsDigit(t[i]) THEN ParseNumber(t, i)
  ELSE IF StartsWith(t, i, Str(<<"t","r","u","e">>)) THEN Parsed(JSBoolean(TRUE), i + 4)
  ELSE IF StartsWith(t, i, Str(<<"f","a","l","s","e">>)) THEN Parsed(JSBoolean(FALSE), i + 5)
  ELSE IF StartsWith(t, i, Str(<<"n","u","l","l">>)) THEN Parsed(Null, i + 4)
  ELSE Failed

\* The members of an object from the key at index j on: a key string, a
\* colon, a value, then a comma and more members or the closing brace.  A
\* repeated key overwrites the value read before.
ParseMembers(t, j, props) ==
  IF At(t, j, Quote) THEN AfterKey(t, props, ParseString(t, j)) ELSE Failed

AfterKey(t, props, key) ==
  IF key.ok THEN AfterColon(t, props, key.v.s, SkipWs(t, key.i)) ELSE Failed

AfterColon(t, props, name, c) ==
  IF At(t, c, Colon) THEN AfterMember(t, props, name, ParseValue(t, SkipWs(t, c + 1)))
  ELSE Failed

AfterMember(t, props, name, val) ==
  IF val.ok THEN MembersEnd(t, SetProp(props, name, val.v), SkipWs(t, val.i)) ELSE Failed

MembersEnd(t, props, e) ==
  IF At(t, e, RBrace) THEN Parsed(JSObject(props), e + 1)
  ELSE IF At(t, e, Comma) THEN ParseMembers(t, SkipWs(t, e + 1), props)
  ELSE Failed

\* The elements of an array from index j on.
ParseElements(t, j, items) == AfterElement(t, items, ParseValue(t, j))

AfterElement(t, items, val) ==
  IF val.ok THEN ElementsEnd(t, Append(items, val.v), SkipWs(t, val.i)) ELSE Failed

ElementsEnd(t, items, e) ==
  IF At(t, e, RBracket) THEN Parsed(JSArray(items), e + 1)
  ELSE IF At(t, e, Comma) THEN ParseElements(t, SkipWs(t, e + 1), items)
  ELSE Failed

\* JSON.parse(text): the value, or a SyntaxError when text is not one JSON
\* value between optional whitespace.
JSON_parse(t) ==
  LET r == ParseValue(t, SkipWs(t, 1))
  IN IF r.ok /\ SkipWs(t, r.i) = Len(t) + 1 THEN Return(r.v) ELSE Throw("SyntaxError")

(***************************************************************************)
(* WebSocketData and its toString                                          *)
(***************************************************************************)

\* The four shapes of WebSocketData: string | Buffer | ArrayBuffer | Buffer[].
StringData(s) == [shape |-> "string", s |-> s]
BufferData(bytes) == [shape |-> "Buffer", bytes |-> bytes]
ArrayBufferData(bytes) == [shape |-> "ArrayBuffer", bytes |-> bytes]
BufferArrayData(bufs) == [shape |-> "Buffer[]", bufs |-> bufs]

\* Buffer.prototype.toString(): UTF-8 decoding, U+FFFD for a byte that starts
\* no valid sequence.  (The bytes of the model are those of code units
\* below 0x800: one- and two-byte sequences.)
RECURSIVE Utf8Decode(_, _)
Utf8Decode(b, i) ==
  IF i > Len(b) THEN <<>>
  ELSE IF b[i] < 128 THEN <<b[i]>> \o Utf8Decode(b, i + 1)
  ELSE IF b[i] >= 194 /\ b[i] <= 223 /\ i + 1 <= Len(b) /\ b[i + 1] >= 128 /\ b[i + 1] <= 191
    THEN <<(b[i] - 192) * 64 + (b[i + 1] - 128)>> \o Utf8Decode(b, i + 2)
  ELSE <<ReplacementChar>> \o Utf8Decode(b, i + 1)

\* Array.prototype.toString(): the elements' strings joined by commas.
RECURSIVE JoinBuffers(_, _)
JoinBuffers(bufs, i) ==
  IF i > Len(bufs) THEN <<>>
  ELSE (IF i = 1 THEN <<>> ELSE <<Comma>>) \o Utf8Decode(bufs[i], 1) \o JoinBuffers(bufs, i + 1)

\* data.toString() of each shape; an ArrayBuffer has Object.prototype's.
toString(data) ==
  CASE data.shape = "string" -> data.s
    [] data.shape = "Buffer" -> Utf8Decode(data.bytes, 1)
    [] data.shape = "ArrayBuffer" ->
         Str(<<"[","o","b","j","e","c","t"," ","A","r","r","a","y","B","u","f","f","e","r","]">>)
    [] data.shape = "Buffer[]" -> JoinBuffers(data.bufs, 1)

(***************************************************************************)
(* Names                                                                   *)
(***************************************************************************)

K_type == Str(<<"t","y","p","e">>)
K_req_id == Str(<<"r","e","q","_","i","d">>)
K_listen == Str(<<"l","i","s","t","e","n">>)
K_fetch == Str(<<"f","e","t","c","h">>)
K_start_block == Str(<<"s","t","a","r","t","_","b","l","o","c","k">>)
K_data == Str(<<"d","a","t","a">>)
K_account == Str(<<"a","c","c","o","u","n","t">>)
K_action_name == Str(<<"a","c","t","i","o","n","_","n","a","m","e">>)
K_receiver == Str(<<"r","e","c","e","i","v","e","r">>)
K_id == Str(<<"i","d">>)
K_code == Str(<<"c","o","d","e">>)
K_scope == Str(<<"s","c","o","p","e">>)
K_table_name == Str(<<"t","a","b","l","e","_","n","a","m","e">>)
K_json == Str(<<"j","s","o","n">>)

T_get_actions == Str(<<"g","e","t","_","a","c","t","i","o","n","s">>)
T_get_transaction == Str(<<"g","e","t","_","t","r","a","n","s","a","c","t","i","o","n">>)
T_get_table_rows == Str(<<"g","e","t","_","t","a","b","l","e","_","r","o","w","s">>)
T_unlisten == Str(<<"u","n","l","i","s","t","e","n">>)
T_action_trace == Str(<<"a","c","t","i","o","n","_","t","r","a","c","e">>)
T_table_rows == Str(<<"t","a","b","l","e","_","r","o","w","s">>)
T_table_delta == Str(<<"t","a","b","l","e","_","d","e","l","t","a">>)
T_ping == Str(<<"p","i","n","g">>)

ReqPrefix == Str(<<"r","e","q">>)

(***************************************************************************)
(* Request encoder                                                         *)
(***************************************************************************)

\* Math.random() returns a double in [0, 1): here rnd / RandomGrain for a
\* numerator rnd in 0 .. RandomGrain - 1.
RandomGrain == 2000

Math_random == 0 .. (RandomGrain - 1)

\* Math.round(num / den) for num >= 0: floor(x + 1/2).
Math_round(num, den) == (2 * num + den) \div (2 * den)

\* "req" + Math.round(Math.random() * 1000), for Math.random() = rnd / RandomGrain.
generateReqId(rnd) == ReqPrefix \o NumberToString(Math_round(rnd * 1000, RandomGrain))

\* The default parameter value: options = {} when the argument is undefined.
DefaultOptions(options) == IF options.t = "undefined" THEN JSObject(<<>>) ELSE options

\* Mutant of ReqIdOf: options.req_id is used as it is, with no default.
ReqIdOf_NoDefault(options, rnd) == GetProp(DefaultOptions(options), K_req_id).v

\* const req_id = options.req_id ? options.req_id : generateReqId()
ReqIdOf(options, rnd) ==
  LET given == GetProp(DefaultOptions(options), K_req_id).v
  IN IF ToBoolean(given) THEN given ELSE JSString(generateReqId(rnd))

\* The envelope every subscription request shares.
Subscription(type, options, rnd, data) ==
  JSObject(<< Prop(K_type, JSString(type)),
              Prop(K_req_id, ReqIdOf(options, rnd)),
              Prop(K_listen, JSBoolean(TRUE)),
              Prop(K_fetch, GetProp(DefaultOptions(options), K_fetch).v),
              Prop(K_start_block, GetProp(DefaultOptions(options), K_start_block).v),
              Prop(K_data, data) >>)

get_actions(account, action_name, receiver, options, rnd) ==
  Return(JSString(JSON_stringify(
    Subscription(T_get_actions, options, rnd,
      JSObject(<< Prop(K_account, account),
                  Prop(K_action_name, action_name),
                  Prop(K_receiver, receiver) >>)))))

get_transaction(trx_id, options, rnd) ==
  Return(JSString(JSON_stringify(
    Subscription(T_get_transaction, options, rnd,
      JSObject(<< Prop(K_id, trx_id) >>)))))

get_table_rows(code, scope, table_name, options, rnd) ==
  Return(JSString(JSON_stringify(
    Subscription(T_get_table_rows, options, rnd,
      JSObject(<< Prop(K_code, code),
                  Prop(K_scope, scope),
                  Prop(K_table_name, table_name),
                  Prop(K_json, JSBoolean(TRUE)) >>)))))

\* Mutant of unlisten: only a missing req_id is refused, not an empty one.
unlisten_OnlyUndefined(req_id) ==
  IF req_id.t = "undefined" THEN Throw("Error: req_id is required")
  ELSE Return(JSString(JSON_stringify(
         JSObject(<< Prop(K_type, JSString(T_unlisten)),
                     Prop(K_data, JSObject(<< Prop(K_req_id, req_id) >>)) >>))))

\* throw new Error("req_id is required") when req_id is falsy.
unlisten(req_id) ==
  IF ~ToBoolean(req_id) THEN Throw("Error: req_id is required")
  ELSE Return(JSString(JSON_stringify(
         JSObject(<< Prop(K_type, JSString(T_unlisten)),
                     Prop(K_data, JSObject(<< Prop(K_req_id, req_id) >>)) >>))))

(***************************************************************************)
(* Response decoder                                                        *)
(***************************************************************************)

parse_message(data) == JSON_parse(toString(data))

\* if (req_id && message.req_id !== req_id) return null
FilteredOut(message, req_id) ==
  ToBoolean(req_id) /\ ~StrictEquals(GetProp(message, K_req_id).v, req_id)

\* Mutant of parse_actions: the req_id filter is not applied.
parse_actions_Unfiltered(data, req_id) ==
  LET m == parse_message(data)
  IN IF m.k = "throw" THEN m
     ELSE LET type == GetProp(m.v, K_type)
          IN IF type.k = "throw" THEN type
             ELSE IF StrictEquals(type.v, JSString(T_action_trace)) THEN Return(m.v)
             ELSE Return(Null)

parse_actions(data, req_id) ==
  LET m == parse_message(data)
  IN IF m.k = "throw" THEN m
     ELSE LET type == GetProp(m.v, K_type)
          IN IF type.k = "throw" THEN type
             ELSE IF StrictEquals(type.v, JSString(T_action_trace))
               THEN IF FilteredOut(m.v, req_id) THEN Return(Null) ELSE Return(m.v)
             ELSE Return(Null)

\* Mutant of parse_table_rows: table_delta is not accepted.
parse_table_rows_OnlyRows(data, req_id) ==
  LET m == parse_message(data)
  IN IF m.k = "throw" THEN m
     ELSE LET type == GetProp(m.v, K_type)
          IN IF type.k = "throw" THEN type
             ELSE IF StrictEquals(type.v, JSString(T_table_rows))
               THEN IF FilteredOut(m.v, req_id) THEN Return(Null) ELSE Return(m.v)
             ELSE Return(Null)

\* Mutant of parse_table_rows: action_trace is accepted as well.
parse_table_rows_AlsoActions(data, req_id) ==
  LET m == parse_message(data)
  IN IF m.k = "throw" THEN m
     ELSE LET type == GetProp(m.v, K_type)
          IN IF type.k = "throw" THEN type
             ELSE IF StrictEquals(type.v, JSString(T_table_rows))
                     \/ StrictEquals(type.v, JSString(T_table_delta))
                     \/ StrictEquals(type.v, JSString(T_action_trace))
               THEN IF FilteredOut(m.v, req_id) THEN Return(Null) ELSE Return(m.v)
             ELSE Return(Null)

parse_table_rows(data, req_id) ==
  LET m == parse_message(data)
  IN IF m.k = "throw" THEN m
     ELSE LET type == GetProp(m.v, K_type)
          IN IF type.k = "throw" THEN type
             ELSE IF StrictEquals(type.v, JSString(T_table_rows))
                     \/ StrictEquals(type.v, JSString(T_table_delta))
               THEN IF FilteredOut(m.v, req_id) THEN Return(Null) ELSE Return(m.v)
             ELSE Return(Null)

\* Mutant of parse_ping: a ping that carries a req_id is dropped.
parse_ping_Correlated(data) ==
  LET m == parse_message(data)
  IN IF m.k = "throw" THEN m
     ELSE LET type == GetProp(m.v, K_type)
          IN IF type.k = "throw" THEN type
             ELSE IF StrictEquals(type.v, JSString(T_ping))
                     /\ ~ToBoolean(GetProp(m.v, K_req_id).v)
               THEN Return(m.v)
             ELSE Return(Null)

parse_ping(data) ==
  LET m == parse_message(data)
  IN IF m.k = "throw" THEN m
     ELSE LET type == GetProp(m.v, K_type)
          IN IF type.k = "throw" THEN type
             ELSE IF StrictEquals(type.v, JSString(T_ping)) THEN Return(m.v)
             ELSE Return(Null)

(***************************************************************************)
(* Inputs                                                                  *)
(***************************************************************************)

\* The most buffers one frame arrives in.
MaxChunks == 3

S_eosio == Str(<<"e","o","s","i","o">>)
S_transfer == Str(<<"t","r","a","n","s","f","e","r">>)
S_global == Str(<<"g","l","o","b","a","l">>)
S_req1 == Str(<<"r","e","q","1">>)
S_req2 == Str(<<"r","e","q","2">>)
S_req42 == Str(<<"r","e","q","4","2">>)
\* A string JSON has to escape: a quote, a backslash, a line feed, and a
\* character outside ASCII (U+00E9).
S_odd == <<Quote, Backslash, 10, 233>>

\* Math.random() values the subscription builders are tried with.
RandomSamples == {0, RandomGrain \div 2, RandomGrain - 1}

\* The options argument: left out, or an object with each field set or not.
OptionsOf(req_id, start_block, fetch) ==
  JSObject(
    (IF req_id.t = "undefined" THEN <<>> ELSE <<Prop(K_req_id, req_id)>>)
    \o (IF start_block.t = "undefined" THEN <<>> ELSE <<Prop(K_start_block, start_block)>>)
    \o (IF fetch.t = "undefined" THEN <<>> ELSE <<Prop(K_fetch, fetch)>>))

OptionsInputs ==
  {Undefined} \cup
  { OptionsOf(r, b, f) :
      r \in {Undefined, JSString(<<>>), JSString(S_req1), JSString(S_odd)},
      b \in {Undefined, JSNumber(0), JSNumber(42)},
      f \in {Undefined, JSBoolean(TRUE), JSBoolean(FALSE)} }

\* An inbound envelope as the peer serializes it.
Envelope(type, req_id, data) ==
  JSObject(<< Prop(K_type, type), Prop(K_req_id, req_id), Prop(K_data, data) >>)

PingText == JSON_stringify(Envelope(JSString(T_ping), Undefined, Undefined))

EnvelopeTexts ==
  { JSON_stringify(Envelope(t, r, d)) :
      t \in { Undefined, JSString(T_action_trace), JSString(T_table_rows),
              JSString(T_table_delta), JSString(T_ping), JSString(T_unlisten),
              JSNumber(5) },
      r \in { Undefined, JSString(S_req1), JSString(S_req2) },
      d \in { Undefined, JSObject(<< Prop(K_id, JSNumber(7)) >>) } }

\* Payloads that are JSON but no envelope, JSON written with whitespace or a
\* repeated key, and text that is not JSON.
OtherTexts ==
  { Str(<<"n","u","l","l">>),
    Str(<<"7">>),
    <<Quote>> \o T_ping \o <<Quote>>,
    Str(<<"[","]">>),
    Str(<<"t","r","u","e">>),
    Str(<<"n","o","t"," ","j","s","o","n">>),
    <<>>,
    SubSeq(PingText, 1, Len(PingText) - 1),
    Str(<<" ","{"," ","\"","t","y","p","e","\""," ",":"," ","\"","p","i","n","g","\""," ","}"," ">>),
    <<LBrace>> \o QuoteJSONString(K_type) \o <<Colon>> \o QuoteJSONString(T_ping) \o <<Comma>>
      \o QuoteJSONString(K_type) \o <<Colon>> \o QuoteJSONString(T_action_trace) \o <<RBrace>>,
    JSON_stringify(Envelope(JSString(T_ping), JSString(S_odd), Undefined)) }

InboundTexts == EnvelopeTexts \cup OtherTexts

\* The texts delivered in several buffers as well.
ChunkedTexts == { PingText, <<Quote>> \o T_ping \o <<Quote>> }

\* Buffer.from(text): the UTF-8 bytes of a string of code units below 0x800.
RECURSIVE Utf8Encode(_, _)
Utf8Encode(s, i) ==
  IF i > Len(s) THEN <<>>
  ELSE (IF s[i] < 128 THEN <<s[i]>> ELSE <<192 + (s[i] \div 64), 128 + (s[i] % 64)>>)
         \o Utf8Encode(s, i + 1)

\* Every way to cut bytes b into n consecutive buffers (empty ones included).
Cuts(len, n) ==
  { c \in [1..(n - 1) -> 0..len] : \A i \in 1..(n - 2) : c[i] <= c[i + 1] }

ChunksAt(b, c, n) ==
  [ i \in 1..n |->
      SubSeq(b, (IF i = 1 THEN 0 ELSE c[i - 1]) + 1, IF i = n THEN Len(b) ELSE c[i]) ]

Splits(b) == UNION { { ChunksAt(b, c, n) : c \in Cuts(Len(b), n) } : n \in 1..MaxChunks }

\* The raw payloads the transport delivers: each text in each shape.
RawData ==
  { StringData(t) : t \in InboundTexts }
  \cup { BufferData(Utf8Encode(t, 1)) : t \in InboundTexts }
  \cup { ArrayBufferData(Utf8Encode(t, 1)) : t \in InboundTexts }
  \cup UNION { { BufferArrayData(bufs) : bufs \in Splits(Utf8Encode(t, 1)) } : t \in ChunkedTexts }

\* The req_id argument of a decoder: left out, empty, or an id.
FilterInputs == { Undefined, JSString(<<>>), JSString(S_req1), JSString(S_req2) }

\* The calls a host application makes.
Calls ==
  { [op |-> "get_actions", account |-> a, action_name |-> n, receiver |-> r, options |-> o] :
      a \in {JSString(S_eosio), JSString(S_odd)},
      n \in {JSString(S_transfer), JSString(S_odd)},
      r \in {Undefined, JSString(S_eosio)},
      o \in OptionsInputs }
  \cup { [op |-> "get_transaction", trx_id |-> x, options |-> o] :
      x \in {JSString(S_eosio), JSString(S_odd)}, o \in OptionsInputs }
  \cup { [op |-> "get_table_rows", code |-> c, scope |-> s, table_name |-> n, options |-> o] :
      c \in {JSString(S_eosio), JSString(S_odd)},
      s \in {JSString(S_eosio), JSString(S_odd)},
      n \in {JSString(S_global), JSString(S_odd)},
      o \in OptionsInputs }
  \cup { [op |-> "unlisten", req_id |-> r] :
      r \in {Undefined, JSString(<<>>), JSString(S_req42), JSString(S_odd)} }
  \cup { [op |-> "generateReqId"] }
  \cup { [op |-> "parse_actions", data |-> d, req_id |-> f] : d \in RawData, f \in FilterInputs }
  \cup { [op |-> "parse_table_rows", data |-> d, req_id |-> f] : d \in RawData, f \in FilterInputs }
  \cup { [op |-> "parse_ping", data |-> d] : d \in RawData }
  \cup { [op |-> "parse_message", data |-> d] : d \in RawData }

(***************************************************************************)
(* The state machine: one call of the library, then its outcome.           *)
(***************************************************************************)

Init == call \in Calls /\ ret = Pending

Do_get_actions ==
  /\ call.op = "get_actions" /\ ret.k = "pending"
  /\ \E rnd \in RandomSamples :
       ret' = get_actions(call.account, call.action_name, call.receiver, call.options, rnd)
  /\ UNCHANGED call

Do_get_transaction ==
  /\ call.op = "get_transaction" /\ ret.k = "pending"
  /\ \E rnd \in RandomSamples : ret' = get_transaction(call.trx_id, call.options, rnd)
  /\ UNCHANGED call

Do_get_table_rows ==
  /\ call.op = "get_table_rows" /\ ret.k = "pending"
  /\ \E rnd \in RandomSamples :
       ret' = get_table_rows(call.code, call.scope, call.table_name, call.options, rnd)
  /\ UNCHANGED call

Do_unlisten ==
  /\ call.op = "unlisten" /\ ret.k = "pending"
  /\ ret' = unlisten(call.req_id)
  /\ UNCHANGED call

Do_generateReqId ==
  /\ call.op = "generateReqId" /\ ret.k = "pending"
  /\ \E rnd \in Math_random : ret' = Return(JSString(generateReqId(rnd)))
  /\ UNCHANGED call

Do_parse_actions ==
  /\ call.op = "parse_actions" /\ ret.k = "pending"
  /\ ret' = parse_actions(call.data, call.req_id)
  /\ UNCHANGED call

Do_parse_table_rows ==
  /\ call.op = "parse_table_rows" /\ ret.k = "pending"
  /\ ret' = parse_table_rows(call.data, call.req_id)
  /\ UNCHANGED call

Do_parse_ping ==
  /\ call.op = "parse_ping" /\ ret.k = "pending"
  /\ ret' = parse_ping(call.data)
  /\ UNCHANGED call

Do_parse_message ==
  /\ call.op = "parse_message" /\ ret.k = "pending"
  /\ ret' = parse_message(call.data)
  /\ UNCHANGED call

Next ==
  \/ Do_get_actions
  \/ Do_get_transaction
  \/ Do_get_table_rows
  \/ Do_unlisten
  \/ Do_generateReqId
  \/ Do_parse_actions
  \/ Do_parse_table_rows
  \/ Do_parse_ping
  \/ Do_parse_message

Spec == Init /\ [][Next]_vars

(***************************************************************************)
(* Properties                                                              *)
(***************************************************************************)

Done == ret.k # "pending"

IsDecoderCall == call.op \in {"parse_actions", "parse_table_rows", "parse_ping"}

IsBuilderCall == call.op \in {"get_actions", "get_transaction", "get_table_rows"}

\* What decode_envelope makes of the call's payload.
Decoded == parse_message(call.data)

\* The payload parsed to a value whose type field can be read (any JSON value
\* but null).
TypeReadable == Decoded.k = "return" /\ Decoded.v.t # "null"

\* The field of a decoded value: undefined when it has none.
Field(v, key) == GetProp(v, key).v

HasType(v, type) == Field(v, K_type) = JSString(type)

NonEmptyString(v) == v.t = "string" /\ Len(v.s) > 0

\* "req" followed by one or more decimal digits.
GeneratedFormat(s) ==
  /\ Len(s) > Len(ReqPrefix)
  /\ SubSeq(s, 1, Len(ReqPrefix)) = ReqPrefix
  /\ \A i \in (Len(ReqPrefix) + 1)..Len(s) : IsDigit(s[i])

\* The number the digits after the prefix denote.
SuffixValue(s) == ParseDigits(s, Len(ReqPrefix) + 1, 0).v

\* C1: a typed decoder raises only when the text of the payload is not
\* parseable as JSON; on every payload that parses, whatever the value, it
\* returns the envelope or the not-present result.
C1_RaisesOnlyOnMalformed ==
  (IsDecoderCall /\ Done) =>
    IF JSON_parse(toString(call.data)).k = "throw"
      THEN ret.k = "throw"
      ELSE ret.k = "return" /\ ret.v \in {Null, Decoded.v}

\* C2, as stated: on an action_trace envelope parse_actions returns
\* not-present whenever a filter is supplied that differs from the
\* envelope's req_id, and the envelope when the filter equals it or is left
\* out; on any other type it returns not-present.
C2_FilterSupplied ==
  (call.op = "parse_actions" /\ Done /\ TypeReadable) =>
    IF HasType(Decoded.v, T_action_trace)
      THEN IF call.req_id.t # "undefined" /\ Field(Decoded.v, K_req_id) # call.req_id
             THEN ret = Return(Null)
             ELSE ret = Return(Decoded.v)
      ELSE ret = Return(Null)

\* C2, amended: on an action_trace envelope parse_actions returns
\* not-present whenever a non-empty filter is supplied that differs from the
\* envelope's req_id, and the envelope when the filter equals it, is empty or
\* is left out; on any other type it returns not-present.
C2_FilterNonEmpty ==
  (call.op = "parse_actions" /\ Done /\ TypeReadable) =>
    IF HasType(Decoded.v, T_action_trace)
      THEN IF NonEmptyString(call.req_id) /\ Field(Decoded.v, K_req_id) # call.req_id
             THEN ret = Return(Null)
             ELSE ret = Return(Decoded.v)
      ELSE ret = Return(Null)

\* An action_trace carrying req1 was decoded with the filter req2 (and was
\* filtered out).
C2_Witness ==
  /\ call.op = "parse_actions" /\ Done /\ TypeReadable
  /\ HasType(Decoded.v, T_action_trace)
  /\ Field(Decoded.v, K_req_id) = JSString(S_req1)
  /\ call.req_id = JSString(S_req2)
  /\ ret = Return(Null)

\* C3: unlisten throws, producing no envelope, when req_id is empty or
\* undefined; for a non-empty req_id the serialized envelope has exactly the
\* fields type = "unlisten" and data = {req_id}, so no listen, fetch or
\* start_block.
C3_Unlisten ==
  (call.op = "unlisten" /\ Done) =>
    IF call.req_id.t = "undefined" \/ call.req_id = JSString(<<>>)
      THEN ret = Throw("Error: req_id is required")
      ELSE /\ ret.k = "return"
           /\ ret.v.t = "string"
           /\ LET env == JSON_parse(ret.v.s)
              IN /\ env.k = "return"
                 /\ env.v.t = "object"
                 /\ [i \in DOMAIN env.v.props |-> env.v.props[i].key] = <<K_type, K_data>>
                 /\ HasType(env.v, T_unlisten)
                 /\ Field(env.v, K_data) = JSObject(<<Prop(K_req_id, call.req_id)>>)
                 /\ Field(env.v, K_listen) = Undefined
                 /\ Field(env.v, K_fetch) = Undefined
                 /\ Field(env.v, K_start_block) = Undefined

\* unlisten was called with an id that needs escaping, and returned.
C3_Witness ==
  call.op = "unlisten" /\ ret.k = "return" /\ call.req_id = JSString(S_odd)

\* The envelope a builder returned, decoded.
Built == JSON_parse(ret.v.s)

\* options.req_id of the call.
GivenReqId == Field(DefaultOptions(call.options), K_req_id)

\* C4, as stated: every subscription builder yields an envelope with
\* listen = true and a non-empty req_id, which is options.req_id when one is
\* supplied and otherwise an id in the generator's format.
C4_ReqIdSupplied ==
  (IsBuilderCall /\ Done) =>
    /\ ret.k = "return" /\ Built.k = "return"
    /\ Field(Built.v, K_listen) = JSBoolean(TRUE)
    /\ NonEmptyString(Field(Built.v, K_req_id))
    /\ IF GivenReqId.t # "undefined"
         THEN Field(Built.v, K_req_id) = GivenReqId
         ELSE GeneratedFormat(Field(Built.v, K_req_id).s)

\* C4, amended: every subscription builder yields an envelope with
\* listen = true and a non-empty req_id, which is options.req_id when a
\* non-empty one is supplied and otherwise (none, or the empty string) an id
\* in the generator's format.
C4_ReqIdNonEmpty ==
  (IsBuilderCall /\ Done) =>
    /\ ret.k = "return" /\ Built.k = "return"
    /\ Field(Built.v, K_listen) = JSBoolean(TRUE)
    /\ NonEmptyString(Field(Built.v, K_req_id))
    /\ IF NonEmptyString(GivenReqId)
         THEN Field(Built.v, K_req_id) = GivenReqId
         ELSE GeneratedFormat(Field(Built.v, K_req_id).s)

\* get_table_rows was called with a req_id that needs escaping, and returned.
C4_Witness ==
  call.op = "get_table_rows" /\ ret.k = "return" /\ GivenReqId = JSString(S_odd)

\* C5: generateReqId returns "req" followed by decimal digits only, whose
\* value is below 1000.
C5_Below1000 ==
  (call.op = "generateReqId" /\ Done) =>
    /\ GeneratedFormat(ret.v.s)
    /\ SuffixValue(ret.v.s) >= 0
    /\ SuffixValue(ret.v.s) < 1000

RECURSIVE ConcatAll(_, _)
ConcatAll(bufs, i) == IF i > Len(bufs) THEN <<>> ELSE bufs[i] \o ConcatAll(bufs, i + 1)

\* The text a raw payload carries: the string, or the characters its bytes
\* (those of all its buffers, in order) encode.
CarriedText(data) ==
  CASE data.shape = "string" -> data.s
    [] data.shape = "Buffer[]" -> Utf8Decode(ConcatAll(data.bufs, 1), 1)
    [] OTHER -> Utf8Decode(data.bytes, 1)

\* C6: whichever of the four shapes a valid envelope text t arrives in,
\* parse_message yields what decoding t itself yields.
C6_ShapesDecodeAlike ==
  (/\ call.op = "parse_message" /\ Done
   /\ JSON_parse(CarriedText(call.data)).k = "return"
   /\ JSON_parse(CarriedText(call.data)).v.t = "object") =>
    ret = JSON_parse(CarriedText(call.data))

\* The payload of the call with its type field set to type.
Retyped(type) ==
  StringData(JSON_stringify(JSObject(SetProp(Decoded.v.props, K_type, JSString(type)))))

OtherTableType == IF HasType(Decoded.v, T_table_rows) THEN T_table_delta ELSE T_table_rows

\* C7: parse_table_rows treats table_rows and table_delta alike: for a
\* payload of either type and any filter, it and the payload that differs
\* only in having the other type are both not-present or both returned as
\* decoded; a payload of any other type is not-present.
C7_TableTypesAlike ==
  (call.op = "parse_table_rows" /\ Done /\ TypeReadable) =>
    IF HasType(Decoded.v, T_table_rows) \/ HasType(Decoded.v, T_table_delta)
      THEN LET other == Retyped(OtherTableType)
               got == parse_table_rows(other, call.req_id)
           IN /\ parse_message(other).v # Decoded.v
              /\ \/ ret = Return(Null) /\ got = Return(Null)
                 \/ ret = Return(Decoded.v) /\ got = parse_message(other)
      ELSE ret = Return(Null)

\* A table_delta envelope carrying req1 was decoded with the filter req1.
C7_Witness ==
  /\ call.op = "parse_table_rows" /\ Done /\ TypeReadable
  /\ HasType(Decoded.v, T_table_delta)
  /\ call.req_id = JSString(S_req1)
  /\ ret = Return(Decoded.v)

\* The string a builder returned, decoded by parse_message.
RoundTrip == parse_message(StringData(ret.v.s))

\* The data fields a builder call is to send.
ExpectedData ==
  CASE call.op = "get_actions" ->
         /\ Field(Field(RoundTrip.v, K_data), K_account) = call.account
         /\ Field(Field(RoundTrip.v, K_data), K_action_name) = call.action_name
         /\ Field(Field(RoundTrip.v, K_data), K_receiver) = call.receiver
    [] call.op = "get_transaction" ->
         Field(Field(RoundTrip.v, K_data), K_id) = call.trx_id
    [] call.op = "get_table_rows" ->
         /\ Field(Field(RoundTrip.v, K_data), K_code) = call.code
         /\ Field(Field(RoundTrip.v, K_data), K_scope) = call.scope
         /\ Field(Field(RoundTrip.v, K_data), K_table_name) = call.table_name
         /\ Field(Field(RoundTrip.v, K_data), K_json) = JSBoolean(TRUE)

KindOf ==
  CASE call.op = "get_actions" -> T_get_actions
    [] call.op = "get_transaction" -> T_get_transaction
    [] call.op = "get_table_rows" -> T_get_table_rows

RoundTripsUnlisten ==
  (call.op = "unlisten" /\ ret.k = "return") =>
    /\ RoundTrip.k = "return"
    /\ HasType(RoundTrip.v, T_unlisten)
    /\ Field(Field(RoundTrip.v, K_data), K_req_id) = call.req_id

\* C8, as stated: decoding the string a subscription builder returned for
\* options.req_id = r yields the builder's type, req_id = r, listen = true
\* and the data fields passed; decoding unlisten(r) yields type "unlisten"
\* and data.req_id = r.
C8_RoundTripAnyReqId ==
  /\ (IsBuilderCall /\ Done /\ GivenReqId.t # "undefined") =>
       /\ ret.k = "return" /\ RoundTrip.k = "return"
       /\ HasType(RoundTrip.v, KindOf)
       /\ Field(RoundTrip.v, K_req_id) = GivenReqId
       /\ Field(RoundTrip.v, K_listen) = JSBoolean(TRUE)
       /\ ExpectedData
  /\ RoundTripsUnlisten

\* C8, amended: the same for every non-empty options.req_id r.
C8_RoundTripNonEmptyReqId ==
  /\ (IsBuilderCall /\ Done /\ NonEmptyString(GivenReqId)) =>
       /\ ret.k = "return" /\ RoundTrip.k = "return"
       /\ HasType(RoundTrip.v, KindOf)
       /\ Field(RoundTrip.v, K_req_id) = GivenReqId
       /\ Field(RoundTrip.v, K_listen) = JSBoolean(TRUE)
       /\ ExpectedData
  /\ RoundTripsUnlisten

\* get_actions was called with arguments and a req_id that need escaping,
\* and returned.
C8_Witness ==
  /\ call.op = "get_actions" /\ ret.k = "return"
  /\ call.account = JSString(S_odd)
  /\ call.receiver = JSString(S_eosio)
  /\ GivenReqId = JSString(S_odd)

\* C9: parse_ping returns the envelope of every payload of type "ping",
\* with or without a req_id, and not-present for any other type.
C9_PingUnfiltered ==
  (call.op = "parse_ping" /\ Done /\ TypeReadable) =>
    IF HasType(Decoded.v, T_ping) THEN ret = Return(Decoded.v) ELSE ret = Return(Null)

\* A ping carrying a req_id was decoded (and returned).
C9_Witness ==
  /\ call.op = "parse_ping" /\ Done /\ TypeReadable
  /\ HasType(Decoded.v, T_ping)
  /\ Field(Decoded.v, K_req_id) = JSString(S_req1)
  /\ ret = Return(Decoded.v)

\* A decoder's outcome is a result other than not-present.
Present(r) == r.k = "return" /\ r.v # Null

\* C10: for a parseable payload and any filters, at most one of the three
\* decoders returns a result other than not-present, and that result is the
\* envelope parse_message returns, unchanged.
C10_DecodersPartition ==
  (IsDecoderCall /\ Done /\ Decoded.k = "return" /\ Present(ret)) =>
    /\ ret.v = Decoded.v
    /\ \A f \in FilterInputs :
         /\ call.op # "parse_actions" => ~Present(parse_actions(call.data, f))
         /\ call.op # "parse_table_rows" => ~Present(parse_table_rows(call.data, f))
         /\ call.op # "parse_ping" => ~Present(parse_ping(call.data))

\* A decoder returned an envelope.
C10_Witness ==
  /\ call.op = "parse_table_rows" /\ Done /\ Decoded.k = "return" /\ Present(ret)
  /\ call.req_id = JSString(S_req2)
====
